---- MODULE Spec2Model ----
(***************************************************************************)
(* Carrier pricing dashboard: route matching (similar_routes.py), tiered   *)
(* aggregation (price_estimator.py), density-peak estimation               *)
(* (high_density_lane_price_estimator.py) and the submit handler of        *)
(* app.py, as one state machine.                                           *)
(*                                                                         *)
(* Conventions of the model:                                               *)
(*  - a nullable value is a sequence of length <= 1: <<>> is null/None,    *)
(*    <<x>> is the value x;                                                *)
(*  - a string that the code slices or compares character by character     *)
(*    (a postcode, a route key) is a sequence of one-character strings;    *)
(*  - a float is an exact extended rational [n, d] with d >= 0 in lowest   *)
(*    terms; d = 0 encodes IEEE +inf (n = 1), -inf (n = -1) and NaN        *)
(*    (n = 0).  Rounding error of binary floating point is not modelled;   *)
(*  - a date is a day number in a calendar of 365-day years;               *)
(*  - a latitude is an integer number of 1/20 degree; every longitude      *)
(*    that is present is the same meridian, on which the haversine         *)
(*    formula reduces to R * |dlat|.                                       *)
(***************************************************************************)
EXTENDS Integers, Sequences, FiniteSets, TLC

\* ------------------------------------------------------------------ bounds
\* rows of a small dataset / of a frame handed directly to an estimator
MaxRows == 3
\* rows of a frame handed directly to identify_optimal_price
MaxObs == 6
\* rows of the single-route scenario dataset
ScenarioRows == 30
\* the non-default min_count drawn as an input of estimate_price
MaxLookups == 3
SmallMinCount == 2

\* ------------------------------------------------------- program constants
DefaultMinCount == 5
MinObservations == 5
MinRecentMatches == 25
RecentDays == 365
DefaultTargetBandwidth == 5
KdeGridPoints == 1000
EarthRadiusKm == 6371
Within10Km == 10
Within20Km == 20
FullLookupMinLen == 4
Outcode4Len == 4
Outcode3Len == 3
Prefix3Len == 3
Prefix2Len == 2

\* ----------------------------------------------------------------- options
None == <<>>
Some(x) == <<x>>
IsNull(o) == o = <<>>
NotNull(o) == o # <<>>
Val(o) == o[1]

Min2(a, b) == IF a <= b THEN a ELSE b
Abs(x) == IF x < 0 THEN -x ELSE x

RECURSIVE GCD(_, _)
GCD(a, b) == IF b = 0 THEN a ELSE GCD(b, a % b)

\* ------------------------------------------------------------------ floats
Rat(n, d) ==
    IF d = 0 THEN [n |-> IF n > 0 THEN 1 ELSE IF n < 0 THEN -1 ELSE 0, d |-> 0]
    ELSE LET s == IF d < 0 THEN -1 ELSE 1
             g == GCD(Abs(n), Abs(d))
         IN  [n |-> (s * n) \div g, d |-> (s * d) \div g]
FromInt(i) == [n |-> i, d |-> 1]
NaN == [n |-> 0, d |-> 0]
IsNaN(x) == x.d = 0 /\ x.n = 0
IsInf(x) == x.d = 0 /\ x.n # 0
IsFinite(x) == x.d > 0
Sign(i) == IF i > 0 THEN 1 ELSE IF i < 0 THEN -1 ELSE 0

FAdd(a, b) ==
    IF IsNaN(a) \/ IsNaN(b) THEN NaN
    ELSE IF IsInf(a) /\ IsInf(b) THEN (IF a.n = b.n THEN a ELSE NaN)
    ELSE IF IsInf(a) THEN a
    ELSE IF IsInf(b) THEN b
    ELSE Rat(a.n * b.d + b.n * a.d, a.d * b.d)

FMul(a, b) ==
    IF IsNaN(a) \/ IsNaN(b) THEN NaN
    ELSE IF IsInf(a) \/ IsInf(b) THEN Rat(Sign(a.n) * Sign(b.n), 0)
    ELSE Rat(a.n * b.n, a.d * b.d)

FDiv(a, b) ==
    IF IsNaN(a) \/ IsNaN(b) THEN NaN
    ELSE IF IsInf(a) /\ IsInf(b) THEN NaN
    ELSE IF IsInf(a) THEN Rat(a.n * (IF b.n < 0 THEN -1 ELSE 1), 0)
    ELSE IF IsInf(b) THEN FromInt(0)
    ELSE IF b.n = 0 THEN Rat(Sign(a.n), 0)
    ELSE Rat(a.n * b.d, a.d * b.n)

\* a <= b on finite values
FLeq(a, b) == a.n * b.d <= b.n * a.d

RECURSIVE FSum(_)
FSum(s) ==
    IF Len(s) = 0 THEN FromInt(0)
    ELSE IF Len(s) = 1 THEN s[1]
    ELSE LET h == Len(s) \div 2
         IN  FAdd(FSum(SubSeq(s, 1, h)), FSum(SubSeq(s, h + 1, Len(s))))

\* --------------------------------------------------------------- sequences
\* a frame held as an explicit sequence
Frame(f) == SubSeq(f, 1, Len(f))

Replicate(x, k) == Frame([i \in 1..k |-> x])

SeqCount(s, x) == Cardinality({i \in 1..Len(s) : s[i] = x})

Range(s) == {s[i] : i \in 1..Len(s)}

\* the distinct elements of s in order of first appearance
Distinct(seq) ==
    LET s == Frame(seq)
        first == {i \in 1..Len(s) : \A j \in 1..(i - 1) : s[j] # s[i]}
        nth(k) == CHOOSE i \in first : Cardinality({j \in first : j < i}) = k - 1
    IN  [k \in 1..Cardinality(first) |-> s[nth(k)]]

\* ascending sort of a sequence of integers (insertion sort)
RECURSIVE SortInts(_)
SortInts(s) ==
    IF s = <<>> THEN <<>>
    ELSE LET rest == SortInts(Tail(s))
             lo == SelectSeq(rest, LAMBDA y : y < s[1])
             hi == SelectSeq(rest, LAMBDA y : y >= s[1])
         IN  lo \o <<s[1]>> \o hi

RECURSIVE SumInts(_)
SumInts(s) ==
    IF Len(s) = 0 THEN 0
    ELSE IF Len(s) = 1 THEN s[1]
    ELSE LET h == Len(s) \div 2
         IN  SumInts(SubSeq(s, 1, h)) + SumInts(SubSeq(s, h + 1, Len(s)))

\* ----------------------------------------------------------------- strings
CharCode(c) ==
    CASE c = " " -> 32 [] c = "-" -> 45
      [] c = "1" -> 49 [] c = "2" -> 50
      [] c = "A" -> 65 [] c = "B" -> 66 [] c = "M" -> 77
      [] c = "S" -> 83 [] c = "W" -> 87
      [] c = "a" -> 97 [] c = "b" -> 98 [] c = "m" -> 109
      [] c = "s" -> 115 [] c = "w" -> 119

ToUpperChar(c) ==
    CASE c = "a" -> "A" [] c = "b" -> "B" [] c = "m" -> "M"
      [] c = "s" -> "S" [] c = "w" -> "W" [] OTHER -> c

\* str.replace(" ", "").upper()
CleanPostcode(p) ==
    LET kept == SelectSeq(p, LAMBDA c : c # " ")
    IN  [i \in 1..Len(kept) |-> ToUpperChar(kept[i])]

\* s[:k]
StrSlice(s, k) == SubSeq(s, 1, Min2(k, Len(s)))

\* a < b, lexicographic by code point
RECURSIVE StrLess(_, _)
StrLess(a, b) ==
    IF b = <<>> THEN FALSE
    ELSE IF a = <<>> THEN TRUE
    ELSE IF CharCode(a[1]) # CharCode(b[1]) THEN CharCode(a[1]) < CharCode(b[1])
    ELSE StrLess(Tail(a), Tail(b))

\* ------------------------------------------------------------------- dates
\* date.today(), as a day number
Today == 2026 * 365 + 307
\* .dt.year / date.year
YearOf(day) == day \div 365

DRecent == Today - 30
DPrevRecent == Today - 330
DPrevOld == Today - 400
DOld4 == Today - 4 * 365
DFuture == Today + 90

\* ----------------------------------------------------------- three-valued
\* polars expressions evaluate to true, false or null
KTrue == <<TRUE>>
KFalse == <<FALSE>>
KNull == <<>>
KBool(b) == <<b>>
KAnd(a, b) ==
    IF a = KFalse \/ b = KFalse THEN KFalse
    ELSE IF a = KNull \/ b = KNull THEN KNull ELSE KTrue
KOr(a, b) ==
    IF a = KTrue \/ b = KTrue THEN KTrue
    ELSE IF a = KNull \/ b = KNull THEN KNull ELSE KFalse
\* DataFrame.filter keeps the rows whose predicate is true (null drops)
Filter(df, P(_)) == SelectSeq(df, LAMBDA r : P(r) = KTrue)

\* ------------------------------------------------------------ sample data
PcSW1A == <<"S", "W", "1", "A", " ", "1", "A", "A">>
PcSW1Alow == <<"s", "w", "1", "a", " ", "1", "a", "a">>
PcB11 == <<"B", "1", "1", " ", "2", "A", "B">>
PcB11low == <<"b", "1", "1", "2", "a", "b">>
PcB11short == <<"b", "1", "1">>
PcSW1B == <<"S", "W", "1", "B", " ", "2", "A", "A">>
PcSW2 == <<"S", "W", "2", " ", "1", "A", "A">>
PcB12 == <<"B", "1", "2", " ", "1", "A", "A">>
PcM1 == <<"M", "1", " ", "1", "A", "A">>
PcOutcode4 == <<"S", "W", "1", "A">>
PcEmpty == <<>>

\* the one meridian of the sample coordinates, in 1/20 degree
Meridian == 0 - 30
LatSW1A == 1000 + 30
LatSW1 == LatSW1A + 1
LatNear == LatSW1A + 2
LatSW2 == LatSW1A + 4
LatB11 == 1000 + 50
LatB1 == LatB11 + 1
LatB12 == LatB11 + 2

Row(o, olat, olon, d, dlat, dlon, vt, day, price) ==
    [origin_postcode |-> o, origin_lat |-> olat, origin_lon |-> olon,
     destination_postcode |-> d, dest_lat |-> dlat, dest_lon |-> dlon,
     vehicle_type |-> vt, pickup_date |-> day, carrier_price |-> price]

Lon == Some(Meridian)

SampleRows == <<
    Row(PcSW1A, Some(LatSW1A), Lon, PcB11, Some(LatB11), Lon, Some("Van"), Some(DRecent), Some(250)),
    Row(PcB11low, Some(LatB11), Lon, PcSW1Alow, Some(LatSW1A), Lon, Some("Van"), Some(DPrevRecent), Some(250)),
    Row(PcSW1B, Some(LatSW1), Lon, PcB11, Some(LatB11), Lon, Some("Luton"), Some(DOld4), Some(300)),
    Row(PcSW2, Some(LatSW2), Lon, PcB12, Some(LatB12), Lon, Some("Van"), Some(DFuture), Some(200)),
    Row(PcSW1A, Some(LatSW1A), Lon, PcB11, Some(LatB11), Lon, Some("Van"), Some(DRecent), Some(0)),
    Row(PcSW1A, Some(LatSW1A), Lon, PcB11, Some(LatB11), Lon, Some("Van"), Some(DPrevOld), None),
    Row(PcM1, Some(LatNear), Lon, PcB11, Some(LatB11), Lon, Some("Van"), Some(DPrevOld), Some(260)),
    Row(PcSW1A, Some(LatSW1A), None, PcB11, None, None, None, None, Some(240)) >>

\* the datasets of at most k sample rows, each up to the order of its rows
RECURSIVE RowSeqs(_, _, _)
RowSeqs(pool, k, from) ==
    {<<>>} \cup
    (IF k = 0 THEN {}
     ELSE UNION {{<<pool[i]>> \o rest : rest \in RowSeqs(pool, k - 1, i)} :
                 i \in from..Len(pool)})

\* ScenarioRows shipments on the route SW1A - B11, vehicle type Van, picked
\* up within the last RecentDays days: j of them at price p, the rest at q
ScenarioRow(day, price) ==
    Row(PcSW1A, Some(LatSW1A), Lon, PcB11, Some(LatB11), Lon, Some("Van"), Some(day), Some(price))
ScenarioDataset(j, p, q) ==
    Replicate(ScenarioRow(DRecent, p), j) \o
    Replicate(ScenarioRow(DPrevRecent, q), ScenarioRows - j)
ScenarioDatasets ==
    {ScenarioDataset(j, 250, q) : j \in {0, ScenarioRows \div 2, ScenarioRows}, q \in {250, 260}}

\* --------------------------------------------------------- geodesic distance
\* haversine_expr: great-circle distance (here in metres) from a row's
\* coordinate columns to a fixed point; null when a column is null.  On one
\* meridian a = sin^2(dlat/2) and 2*asin(sqrt(a)) = |dlat|, so the distance is
\* R * |dlat|, with |dlat| = k/20 degree = k * pi / 3600 rad and pi ~ 355/113:
\* R km * 1000 * k * pi / 3600 = R * k * 355 * 10 / (113 * 36) metres.
haversine_expr(lat1, lon1, lat2, lon2) ==
    IF IsNull(lat1) \/ IsNull(lon1) THEN None
    ELSE Some((EarthRadiusKm * 355 * Abs(lat2 - Val(lat1)) * 10) \div (113 * 36))

\* dist <= km, three-valued
WithinKm(dist, km) == IF IsNull(dist) THEN KNull ELSE KBool(Val(dist) <= km * 1000)

\* ------------------------------------------------------------ route matching
\* the derived columns of find_similar_routes_by_postcode, per row
OriginPrefix(r, k) == StrSlice(CleanPostcode(r.origin_postcode), k)
DestPrefix(r, k) == StrSlice(CleanPostcode(r.destination_postcode), k)

\* t: the resolved target, [olat, olon, dlat, dlon]
ForwardOriginDist(r, t) == haversine_expr(r.origin_lat, r.origin_lon, t.olat, t.olon)
ForwardDestDist(r, t) == haversine_expr(r.dest_lat, r.dest_lon, t.dlat, t.dlon)
ReverseOriginDist(r, t) == haversine_expr(r.origin_lat, r.origin_lon, t.dlat, t.dlon)
ReverseDestDist(r, t) == haversine_expr(r.dest_lat, r.dest_lon, t.olat, t.olon)

\* (carrier_price.is_not_null()) & (carrier_price != 0)
carrier_price_filter(r) ==
    KAnd(KBool(NotNull(r.carrier_price)),
         IF IsNull(r.carrier_price) THEN KNull ELSE KBool(Val(r.carrier_price) # 0))

\* pl.col("vehicle_type") == vehicle_type, or pl.lit(True) when none is asked
vehicle_filter(r, vehicle_type) ==
    IF NotNull(vehicle_type)
    THEN (IF IsNull(r.vehicle_type) THEN KNull
          ELSE KBool(Val(r.vehicle_type) = Val(vehicle_type)))
    ELSE KTrue

combined_filter_no_vehicle(r, vehicle_type) == carrier_price_filter(r)
combined_filter(r, vehicle_type) ==
    KAnd(carrier_price_filter(r), vehicle_filter(r, vehicle_type))

PrefixMatch(r, o, d, k) ==
    KOr(KAnd(KBool(OriginPrefix(r, k) = StrSlice(o, k)), KBool(DestPrefix(r, k) = StrSlice(d, k))),
        KAnd(KBool(OriginPrefix(r, k) = StrSlice(d, k)), KBool(DestPrefix(r, k) = StrSlice(o, k))))

DistanceMatch(r, t, km) ==
    KOr(KAnd(WithinKm(ForwardOriginDist(r, t), km), WithinKm(ForwardDestDist(r, t), km)),
        KAnd(WithinKm(ReverseOriginDist(r, t), km), WithinKm(ReverseDestDist(r, t), km)))

\* .select(required_cols): the coordinate and distance columns are dropped
required_cols(r) ==
    [origin_postcode |-> r.origin_postcode,
     destination_postcode |-> r.destination_postcode,
     carrier_price |-> r.carrier_price,
     vehicle_type |-> r.vehicle_type,
     pickup_date |-> r.pickup_date]
Select(df) == Frame([i \in 1..Len(df) |-> required_cols(df[i])])

matches_3_letter_of(df, o, d, t, vt) ==
    Select(Filter(df, LAMBDA r : KAnd(combined_filter(r, vt), PrefixMatch(r, o, d, Prefix3Len))))
matches_2_letter_of(df, o, d, t, vt) ==
    Select(Filter(df, LAMBDA r : KAnd(combined_filter(r, vt), PrefixMatch(r, o, d, Prefix2Len))))
within_10km_of(df, o, d, t, vt) ==
    Select(Filter(df, LAMBDA r : KAnd(combined_filter(r, vt), DistanceMatch(r, t, Within10Km))))
within_20km_forward_only(df, o, d, t, vt) ==
    Select(Filter(df, LAMBDA r :
        KAnd(combined_filter(r, vt),
             KAnd(WithinKm(ForwardOriginDist(r, t), Within20Km),
                  WithinKm(ForwardDestDist(r, t), Within20Km)))))
within_20km_of(df, o, d, t, vt) ==
    Select(Filter(df, LAMBDA r : KAnd(combined_filter(r, vt), DistanceMatch(r, t, Within20Km))))

\* -------------------------------------------------------- tiered aggregation
Separator == <<" ", "-", " ">>
\* create_route_key, per row
create_route_key(r) ==
    IF StrLess(r.origin_postcode, r.destination_postcode)
    THEN r.origin_postcode \o Separator \o r.destination_postcode
    ELSE r.destination_postcode \o Separator \o r.origin_postcode

QualifiesZeroPrice(r) ==
    KAnd(KBool(NotNull(r.carrier_price)), KBool(NotNull(r.pickup_date)))
\* the rows estimate_price_from_df keeps
Qualifies(r) ==
    KAnd(KAnd(KBool(NotNull(r.carrier_price)),
              IF IsNull(r.carrier_price) THEN KNull ELSE KBool(Val(r.carrier_price) # 0)),
         KBool(NotNull(r.pickup_date)))

time_weight_off(r, use_time_weighting) == FromInt(1)
\* years_ago and time_weight of a kept row
years_ago(r) == YearOf(Today) - YearOf(Val(r.pickup_date))
time_weight(r, use_time_weighting) ==
    IF use_time_weighting THEN FDiv(FromInt(1), FromInt(years_ago(r) + 1))
    ELSE FromInt(1)

\* the frame after lines 41-67: kept rows with route_key and time_weight
WithWeight(df, use_time_weighting) ==
    LET kept == Filter(df, Qualifies)
    IN  Frame([i \in 1..Len(kept) |->
                  [route_key |-> create_route_key(kept[i]),
                   carrier_price |-> Val(kept[i].carrier_price),
                   time_weight |-> time_weight(kept[i], use_time_weighting)]])

GroupKey(w) == <<w.route_key, w.carrier_price>>

\* group_by(["route_key", "carrier_price"]).agg(count, mean time_weight)
\* with the adjusted_volume and adjusted_cost columns
group_by(rows) ==
    LET keys == Distinct([i \in 1..Len(rows) |-> GroupKey(rows[i])])
        Members(k) == SelectSeq(rows, LAMBDA w : GroupKey(w) = k)
        Group(k) ==
            LET m == Members(k)
                volume == Len(m)
                avg == FDiv(FSum([i \in 1..Len(m) |-> m[i].time_weight]), FromInt(volume))
            IN  [route_key |-> k[1], carrier_price |-> k[2],
                 volume |-> volume, avg_time_weight |-> avg,
                 adjusted_volume |-> FMul(FromInt(volume), avg),
                 adjusted_cost |-> FMul(FMul(FromInt(k[2]), FromInt(volume)), avg)]
    IN  Frame([i \in 1..Len(keys) |-> Group(keys[i])])

\* column aggregations of polars over a sequence of integers
ColMean(xs) == FDiv(FromInt(SumInts(xs)), FromInt(Len(xs)))
ColMedian(xs) ==
    LET s == SortInts(xs)
        n == Len(s)
    IN  IF n % 2 = 1 THEN FromInt(s[(n + 1) \div 2])
        ELSE Rat(s[n \div 2] + s[n \div 2 + 1], 2)
ColMin(xs) == SortInts(xs)[1]
ColMax(xs) == SortInts(xs)[Len(xs)]
\* std(ddof=1): null for fewer than two values; otherwise the square root of
\* the returned variance sum((x - mean)^2) / (n - 1)
ColStd(xs) ==
    LET n == Len(xs)
        sq == SumInts([i \in 1..n |-> xs[i] * xs[i]])
        sm == SumInts(xs)
    IN  IF n < 2 THEN None
        ELSE Some([sqrt_of |-> Rat(n * sq - sm * sm, n * (n - 1))])

estimate_price_from_df(df, use_time_weighting) ==
    IF df = <<>> THEN None
    ELSE IF Filter(df, Qualifies) = <<>> THEN None
    ELSE LET grouped == group_by(WithWeight(df, use_time_weighting))
             price == Frame([i \in 1..Len(grouped) |-> grouped[i].carrier_price])
         IN  Some([volume_time_weighted_avg_cost |->
                       FDiv(FSum([i \in 1..Len(grouped) |-> grouped[i].adjusted_cost]),
                            FSum([i \in 1..Len(grouped) |-> grouped[i].adjusted_volume])),
                   avg_cost |-> ColMean(price),
                   median_cost |-> ColMedian(price),
                   min_cost |-> ColMin(price),
                   max_cost |-> ColMax(price),
                   stddev_cost |-> ColStd(price),
                   valid_count |-> SumInts([i \in 1..Len(grouped) |-> grouped[i].volume])])

\* pl.concat(dfs, how="vertical"), for a sequence of frames
RECURSIVE join_dfs_dedup(_)
join_dfs_dedup(dfs) ==
    IF dfs = <<>> THEN <<>>
    ELSE Distinct(join_dfs_dedup(SubSeq(dfs, 1, Len(dfs) - 1)) \o dfs[Len(dfs)])
join_dfs_last(dfs) == IF dfs = <<>> THEN <<>> ELSE dfs[Len(dfs)]
RECURSIVE join_dfs(_)
join_dfs(dfs) == IF dfs = <<>> THEN <<>> ELSE dfs[1] \o join_dfs(Tail(dfs))

Labels == <<"3-letter prefix",
            "3-letter prefix + within 10km",
            "3-letter prefix + within 10km + within 20km",
            "3-letter prefix + within 10km + within 20km + 2-letter prefix">>

\* the frame estimate_price hands to try_tier at fallback level k
LevelPool(m3, w10, w20, m2, k) ==
    IF k = 1 THEN m3 ELSE join_dfs(SubSeq(<<m3, w10, w20, m2>>, 1, k))

try_tier_any(df, label, use_time_weighting, min_count) ==
    LET stats == estimate_price_from_df(df, use_time_weighting)
    IN  IF NotNull(stats)
        THEN Some([stats |-> Val(stats),
                   explanation |-> [count |-> Val(stats).valid_count, label |-> label]])
        ELSE None
\* try_tier
try_tier(df, label, use_time_weighting, min_count) ==
    LET stats == estimate_price_from_df(df, use_time_weighting)
    IN  IF NotNull(stats) /\ Val(stats).valid_count >= min_count
        THEN Some([stats |-> Val(stats),
                   explanation |-> [count |-> Val(stats).valid_count, label |-> label]])
        ELSE None

\* ------------------------------------------------------------------ geocoder
Coord(lat, lon) == [lat |-> lat, lon |-> lon]

\* what api.postcodes.io holds: /postcodes/<code> and /outcodes/<code>
ApiDirectory(endpoint, code) ==
    CASE endpoint = "postcodes" /\ code = CleanPostcode(PcSW1A) -> Some(Coord(LatSW1A, Meridian))
      [] endpoint = "outcodes" /\ code = StrSlice(CleanPostcode(PcSW1A), Outcode4Len) -> Some(Coord(LatSW1, Meridian))
      [] endpoint = "postcodes" /\ code = CleanPostcode(PcB11) -> Some(Coord(LatB11, Meridian))
      [] endpoint = "outcodes" /\ code = StrSlice(CleanPostcode(PcB11), Outcode3Len) -> Some(Coord(LatB1, Meridian))
      [] OTHER -> None

Url(endpoint, code) == [endpoint |-> endpoint, code |-> code]

Attempts4WheneverLongEnough(postcode) ==
    (IF Len(postcode) > FullLookupMinLen THEN <<Url("postcodes", postcode)>> ELSE <<>>) \o
    (IF Len(postcode) >= Outcode4Len
     THEN <<Url("outcodes", StrSlice(postcode, Outcode4Len))>> ELSE <<>>) \o
    (IF Len(postcode) >= Outcode3Len
     THEN <<Url("outcodes", StrSlice(postcode, Outcode3Len))>> ELSE <<>>)
\* the requests get_lat_lon_from_api makes for a postcode not in the cache,
\* in order, if none of them succeeds
Attempts(postcode) ==
    (IF Len(postcode) > FullLookupMinLen
     THEN <<Url("postcodes", postcode)>> \o
          (IF Len(postcode) >= Outcode4Len
           THEN <<Url("outcodes", StrSlice(postcode, Outcode4Len))>> ELSE <<>>)
     ELSE <<>>) \o
    (IF Len(postcode) >= Outcode3Len
     THEN <<Url("outcodes", StrSlice(postcode, Outcode3Len))>> ELSE <<>>)

\* The outcomes of get_lat_lon_from_api(postcode) with the cache as given.
\* fetch_lat_lon of a URL returns what the directory holds or None (a status
\* other than 200 or an empty result), whichever the service answers; the
\* lookup stops at the first answer that is not None.
get_lat_lon_from_api(postcode, cache) ==
    LET clean == CleanPostcode(postcode)
        att == Attempts(clean)
    IN  IF clean \in DOMAIN cache
        THEN {[ok |-> TRUE, lat_lon |-> cache[clean], requests |-> <<>>, cache |-> cache]}
        ELSE {[ok |-> TRUE,
               lat_lon |-> Val(ApiDirectory(att[j].endpoint, att[j].code)),
               requests |-> SubSeq(att, 1, j),
               cache |-> [q \in DOMAIN cache \cup {clean} |->
                             IF q = clean
                             THEN Val(ApiDirectory(att[j].endpoint, att[j].code))
                             ELSE cache[q]]] :
                 j \in {i \in 1..Len(att) : NotNull(ApiDirectory(att[i].endpoint, att[i].code))}}
             \cup
             {[ok |-> FALSE, lat_lon |-> Coord(0, 0), requests |-> att, cache |-> cache]}

\* --------------------------------------------------------------- density peak
PdRow(price, route_key, vehicle_type) ==
    [carrier_price |-> price, route_key |-> route_key, vehicle_type |-> vehicle_type]

\* np.percentile(costs, q) * 4 for q = 25 * quarter, linear interpolation
Percentile4(sorted, quarter) ==
    LET n == Len(sorted)
        pos == quarter * (n - 1)
        lo == pos \div 4 + 1
        fr == pos % 4
    IN  IF fr = 0 THEN 4 * sorted[lo]
        ELSE (4 - fr) * sorted[lo] + fr * sorted[lo + 1]
\* scipy.stats.iqr(costs) * 4
Iqr4(costs) == LET s == SortInts(costs) IN Percentile4(s, 3) - Percentile4(s, 1)
\* np.std(costs) = 0
StdIsZero(costs) == \A i \in 1..Len(costs) : costs[i] = costs[1]

\* the costs array: the non-null prices after the optional filters
CostsOf(df, route_key, vehicle_type) ==
    LET by_route == IF NotNull(route_key) /\ Val(route_key) # ""
                    THEN SelectSeq(df, LAMBDA r : r.route_key = Val(route_key)) ELSE df
        by_vehicle == IF NotNull(vehicle_type) /\ Val(vehicle_type) # ""
                      THEN SelectSeq(by_route, LAMBDA r : r.vehicle_type = vehicle_type)
                      ELSE by_route
        priced == SelectSeq(by_vehicle, LAMBDA r : NotNull(r.carrier_price))
    IN  Frame([i \in 1..Len(priced) |-> Val(priced[i].carrier_price)])

\* the fallback: left edge of the most populous bin of width target_bandwidth,
\* the lowest such bin on a tie
BinnedMode(costs, target_bandwidth) ==
    LET bins == [i \in 1..Len(costs) |-> (costs[i] \div target_bandwidth) * target_bandwidth]
        most == CHOOSE b \in Range(bins) :
                    \A c \in Range(bins) :
                        \/ SeqCount(bins, b) > SeqCount(bins, c)
                        \/ SeqCount(bins, b) = SeqCount(bins, c) /\ b <= c
    IN  FromInt(most)

\* indices of linspace(min, max, KdeGridPoints) at which the first peak of the
\* density that reaches the threshold may lie: find_peaks returns interior
\* points only.  The density itself (gaussian_kde) is not computed.
PeakIndices == {1, KdeGridPoints \div 2, KdeGridPoints - 2}
GridPrice(costs, idx) ==
    LET lo == ColMin(costs)
        hi == ColMax(costs)
    IN  Rat(lo * (KdeGridPoints - 1) + idx * (hi - lo), KdeGridPoints - 1)

\* The values identify_optimal_price can return: None, or a price.
identify_optimal_price(df, route_key, vehicle_type, target_bandwidth) ==
    LET costs == CostsOf(df, route_key, vehicle_type)
        spread_is_zero == Iqr4(costs) <= 0 /\ StdIsZero(costs)
    IN  IF Len(costs) < MinObservations THEN {None}
        ELSE IF spread_is_zero THEN {None}
        ELSE {Some(GridPrice(costs, idx)) : idx \in PeakIndices}
             \cup {Some(BinnedMode(costs, target_bandwidth))}

\* ---------------------------------------------------------------------- state
VARIABLES
    df,                 \* the loaded dataset (app.py line 64), or the frame of a direct call
    postcode_cache,     \* similar_routes.postcode_cache
    pc,                 \* where the current call stands
    caller,             \* "app": the submit handler; "direct": a call of the functions
    origin_postcode,    \* arguments of find_similar_routes_by_postcode
    dest_postcode,
    vehicle_type,
    route_key,          \* arguments of identify_optimal_price
    target_bandwidth,
    df_query,           \* its df argument
    lookups,            \* postcodes handed to get_lat_lon_from_api by this query
    requests,           \* HTTP requests made by this query
    target,             \* resolved target coordinates
    tiers,              \* the returned tuple, once returned
    min_count,          \* arguments of estimate_price
    use_time_weighting,
    level,              \* fallback level estimate_price is at
    result,             \* return value of estimate_price / of a direct estimator call
    error,              \* the exception that ended the query, if any
    pricing_stats,      \* app.py pricing_stats
    message             \* what the page shows

vars == <<df, postcode_cache, pc, caller, origin_postcode, dest_postcode, vehicle_type,
          route_key, target_bandwidth,
          df_query, lookups, requests, target, tiers, min_count, use_time_weighting,
          level, result, error, pricing_stats, message>>

NoTarget == [olat |-> 0, olon |-> 0, dlat |-> 0, dlon |-> 0]
EmptyCache == [q \in {} |-> Coord(0, 0)]

Datasets == RowSeqs(SampleRows, MaxRows, 1) \cup ScenarioDatasets

\* the (origin, destination) pairs entered as queries
QueryRoutes == {<<PcSW1Alow, PcB11>>, <<PcB11short, PcSW1A>>, <<PcB11, PcB11>>,
                <<PcM1, PcB11>>, <<PcEmpty, PcB11>>}
VehicleChoices == {None, Some("Van")}
MinCounts == {SmallMinCount, DefaultMinCount}

Quiet ==
    /\ pc = "idle" /\ caller = "none"
    /\ origin_postcode = <<>> /\ dest_postcode = <<>> /\ vehicle_type = None
    /\ route_key = None /\ target_bandwidth = DefaultTargetBandwidth
    /\ df_query = <<>> /\ lookups = <<>> /\ requests = <<>>
    /\ target = NoTarget /\ tiers = None
    /\ min_count = DefaultMinCount /\ use_time_weighting = TRUE
    /\ level = 0 /\ result = None /\ error = None
    /\ pricing_stats = None /\ message = None

Init ==
    /\ df \in Datasets
    /\ postcode_cache = EmptyCache
    /\ Quiet

\* ------------------------------------------------------------------- queries
\* app.py lines 83-97: the form is submitted; the dataset is filtered by the
\* selected vehicle type and find_similar_routes_by_postcode is entered with
\* no vehicle_type argument
Submit(o, d, selected) ==
    /\ pc = "idle"
    /\ caller' = "app"
    /\ IF o # <<>> /\ d # <<>>
       THEN /\ df_query' = (IF IsNull(selected) THEN df
                            ELSE SelectSeq(df, LAMBDA r : r.vehicle_type = selected))
            /\ origin_postcode' = o
            /\ dest_postcode' = d
            /\ pc' = "resolve_origin"
            /\ message' = None
       ELSE /\ message' = Some("Please enter both origin and destination postcodes.")
            /\ pc' = "done"
            /\ UNCHANGED <<df_query, origin_postcode, dest_postcode>>
    /\ UNCHANGED <<route_key, target_bandwidth, df, postcode_cache, vehicle_type, lookups, requests, target, tiers,
                   min_count, use_time_weighting, level, result, error, pricing_stats>>

\* find_similar_routes_by_postcode(df, o, d, vt) called on the dataset
CallFindSimilar(o, d, vt) ==
    /\ pc = "idle"
    /\ caller' = "direct"
    /\ df_query' = df
    /\ origin_postcode' = o
    /\ dest_postcode' = d
    /\ vehicle_type' = vt
    /\ pc' = "resolve_origin"
    /\ UNCHANGED <<route_key, target_bandwidth, df, postcode_cache, lookups, requests, target, tiers, min_count,
                   use_time_weighting, level, result, error, pricing_stats, message>>

\* similar_routes.py line 112, with the whole of get_lat_lon_from_api
ResolveOrigin ==
    /\ pc = "resolve_origin"
    /\ \E out \in get_lat_lon_from_api(CleanPostcode(origin_postcode), postcode_cache) :
         /\ lookups' = Append(lookups, CleanPostcode(origin_postcode))
         /\ requests' = requests \o out.requests
         /\ postcode_cache' = out.cache
         /\ IF out.ok
            THEN /\ target' = [target EXCEPT !.olat = out.lat_lon.lat, !.olon = out.lat_lon.lon]
                 /\ pc' = "resolve_dest"
                 /\ error' = error
            ELSE /\ error' = Some("ValueError")
                 /\ pc' = "raised"
                 /\ target' = target
    /\ UNCHANGED <<route_key, target_bandwidth, df, caller, origin_postcode, dest_postcode, vehicle_type, df_query, tiers,
                   min_count, use_time_weighting, level, result, pricing_stats, message>>

ResolveDestLenient ==
    /\ pc = "resolve_dest"
    /\ \E out \in get_lat_lon_from_api(CleanPostcode(dest_postcode), postcode_cache) :
         /\ lookups' = Append(lookups, CleanPostcode(dest_postcode))
         /\ requests' = requests \o out.requests
         /\ postcode_cache' = out.cache
         /\ target' = (IF out.ok
                       THEN [target EXCEPT !.dlat = out.lat_lon.lat, !.dlon = out.lat_lon.lon]
                       ELSE target)
         /\ pc' = "filter"
         /\ error' = error
    /\ UNCHANGED <<route_key, target_bandwidth, df, caller, origin_postcode, dest_postcode,
                   vehicle_type, df_query, tiers, min_count, use_time_weighting, level,
                   result, pricing_stats, message>>

\* similar_routes.py line 113
ResolveDest ==
    /\ pc = "resolve_dest"
    /\ \E out \in get_lat_lon_from_api(CleanPostcode(dest_postcode), postcode_cache) :
         /\ lookups' = Append(lookups, CleanPostcode(dest_postcode))
         /\ requests' = requests \o out.requests
         /\ postcode_cache' = out.cache
         /\ IF out.ok
            THEN /\ target' = [target EXCEPT !.dlat = out.lat_lon.lat, !.dlon = out.lat_lon.lon]
                 /\ pc' = "filter"
                 /\ error' = error
            ELSE /\ error' = Some("ValueError")
                 /\ pc' = "raised"
                 /\ target' = target
    /\ UNCHANGED <<route_key, target_bandwidth, df, caller, origin_postcode, dest_postcode, vehicle_type, df_query, tiers,
                   min_count, use_time_weighting, level, result, pricing_stats, message>>

\* the tuple find_similar_routes_by_postcode returns (lines 115-172)
find_similar_routes_by_postcode(frame, o, d, t, vt) ==
    [matches_3_letter |-> matches_3_letter_of(frame, CleanPostcode(o), CleanPostcode(d), t, vt),
     within_10km |-> within_10km_of(frame, CleanPostcode(o), CleanPostcode(d), t, vt),
     within_20km |-> within_20km_of(frame, CleanPostcode(o), CleanPostcode(d), t, vt),
     matches_2_letter |-> matches_2_letter_of(frame, CleanPostcode(o), CleanPostcode(d), t, vt)]

FilterTiers ==
    /\ pc = "filter"
    /\ tiers' = Some(find_similar_routes_by_postcode(df_query, origin_postcode, dest_postcode,
                                                     target, vehicle_type))
    /\ pc' = "matched"
    /\ UNCHANGED <<route_key, target_bandwidth, df, postcode_cache, caller, origin_postcode, dest_postcode, vehicle_type,
                   df_query, lookups, requests, target, min_count, use_time_weighting,
                   level, result, error, pricing_stats, message>>

\* app.py lines 103-107
matches_3_letter_recent(matches_3_letter) ==
    SelectSeq(matches_3_letter,
              LAMBDA r : NotNull(r.pickup_date) /\ Val(r.pickup_date) >= Today - RecentDays)

\* app.py lines 103-136: the rest of the submit handler
ShowResults ==
    /\ pc = "matched" /\ caller = "app"
    /\ LET recent == matches_3_letter_recent(Val(tiers).matches_3_letter)
       IN  IF Len(recent) >= MinRecentMatches
           THEN \E optimal_price \in identify_optimal_price(recent, None, None, DefaultTargetBandwidth) :
                  /\ pricing_stats' =
                        (IF NotNull(optimal_price)
                         THEN Some([volume_time_weighted_avg_cost |-> Val(optimal_price),
                                    explanation |-> "Estimated using lowest fair price in last 365 days"])
                         ELSE None)
                  /\ message' = Some("3-letter postcode matches (last 365 days)")
           ELSE /\ pricing_stats' = None
                /\ message' = (IF Len(recent) > 0
                               THEN Some("Not enough recent 3-letter matches")
                               ELSE Some("No data available"))
    /\ pc' = "done"
    /\ UNCHANGED <<route_key, target_bandwidth, df, postcode_cache, caller, origin_postcode, dest_postcode, vehicle_type,
                   df_query, lookups, requests, target, tiers, min_count, use_time_weighting,
                   level, result, error>>

\* estimate_price(matches_3, within_10, within_20, matches_2, mc, utw) is
\* called on the returned tiers
CallEstimatePrice(mc, utw) ==
    /\ pc = "matched" /\ caller = "direct"
    /\ min_count' = mc
    /\ use_time_weighting' = utw
    /\ level' = 1
    /\ pc' = "estimate"
    /\ UNCHANGED <<route_key, target_bandwidth, df, postcode_cache, caller, origin_postcode, dest_postcode, vehicle_type,
                   df_query, lookups, requests, target, tiers, result, error,
                   pricing_stats, message>>

\* the pool of the current query at fallback level k
Pool(k) ==
    LevelPool(Val(tiers).matches_3_letter, Val(tiers).within_10km,
              Val(tiers).within_20km, Val(tiers).matches_2_letter, k)

NumLevels == Len(Labels)

\* one "# Tier k" block of estimate_price (lines 121-141)
next_level_skip(k, tried) == IF NotNull(tried) THEN 0 ELSE IF k < NumLevels - 1 THEN k + 2 ELSE 0
next_level(k, tried) == IF NotNull(tried) THEN 0 ELSE IF k < NumLevels THEN k + 1 ELSE 0
TryTier ==
    /\ pc = "estimate"
    /\ LET tried == try_tier(Pool(level), Labels[level], use_time_weighting, min_count)
       IN  /\ level' = next_level(level, tried)
           /\ IF next_level(level, tried) = 0
              THEN /\ result' = tried
                   /\ pc' = "returned"
              ELSE /\ result' = result
                   /\ pc' = pc
    /\ UNCHANGED <<route_key, target_bandwidth, df, postcode_cache, caller, origin_postcode, dest_postcode, vehicle_type,
                   df_query, lookups, requests, target, tiers, min_count, use_time_weighting,
                   error, pricing_stats, message>>

\* estimate_price_from_df(df, use_time_weighting=utw) called on the dataset
CallEstimatePriceFromDf(utw) ==
    /\ pc = "idle"
    /\ caller' = "from_df"
    /\ use_time_weighting' = utw
    /\ result' = estimate_price_from_df(Select(df), utw)
    /\ pc' = "returned"
    /\ UNCHANGED <<route_key, target_bandwidth, df, postcode_cache, origin_postcode, dest_postcode, vehicle_type, df_query,
                   lookups, requests, target, tiers, min_count, level, error,
                   pricing_stats, message>>

Next ==
    \/ \E q \in QueryRoutes, sel \in VehicleChoices : Submit(q[1], q[2], sel)
    \/ \E q \in QueryRoutes, vt \in VehicleChoices : CallFindSimilar(q[1], q[2], vt)
    \/ ResolveOrigin
    \/ ResolveDest
    \/ FilterTiers
    \/ ShowResults
    \/ \E mc \in MinCounts, utw \in BOOLEAN : CallEstimatePrice(mc, utw)
    \/ TryTier
    \/ \E utw \in BOOLEAN : CallEstimatePriceFromDf(utw)

Spec == Init /\ [][Next]_vars

\* ------------------------------------------- identify_optimal_price, directly
\* frames of a lane's prices: close prices, a far one, a zero, a null, and a
\* row of another route and vehicle type
DensityRows == <<
    PdRow(Some(100), "R1", Some("Van")),
    PdRow(Some(104), "R1", Some("Van")),
    PdRow(Some(200), "R1", Some("Van")),
    PdRow(Some(0), "R1", Some("Van")),
    PdRow(None, "R1", Some("Van")),
    PdRow(Some(100), "R2", Some("Luton")) >>
DensityFrames == RowSeqs(DensityRows, MaxObs, 1)
RouteKeyChoices == {None, Some("R1")}
Bandwidths == {DefaultTargetBandwidth, 2 * DefaultTargetBandwidth}

InitDensity ==
    /\ df \in DensityFrames
    /\ postcode_cache = EmptyCache
    /\ Quiet

\* identify_optimal_price(df, route_key, vehicle_type, target_bandwidth)
CallIdentifyOptimalPrice(rk, vt, bw) ==
    /\ pc = "idle"
    /\ caller' = "density"
    /\ route_key' = rk
    /\ vehicle_type' = vt
    /\ target_bandwidth' = bw
    /\ \E optimal_price \in identify_optimal_price(df, rk, vt, bw) : result' = optimal_price
    /\ pc' = "returned"
    /\ UNCHANGED <<df, postcode_cache, origin_postcode, dest_postcode, df_query, lookups,
                   requests, target, tiers, min_count, use_time_weighting, level, error,
                   pricing_stats, message>>

NextDensity ==
    \E rk \in RouteKeyChoices, vt \in VehicleChoices, bw \in Bandwidths :
        CallIdentifyOptimalPrice(rk, vt, bw)

SpecDensity == InitDensity /\ [][NextDensity]_vars

\* ------------------------------------------------------- geocoder call by call
\* get_lat_lon_from_api called up to MaxLookups times in a row; the module-level
\* postcode_cache lives on from call to call, also after a call that raised
GeocoderPostcodes == {PcSW1A, PcSW1Alow, PcB11, PcB11short, PcOutcode4, PcM1, PcEmpty}

InitGeocoder ==
    /\ df = <<>>
    /\ postcode_cache = EmptyCache
    /\ Quiet

CallGetLatLon(postcode) ==
    /\ caller \in {"none", "geocoder"}
    /\ Len(lookups) < MaxLookups
    /\ caller' = "geocoder"
    /\ \E out \in get_lat_lon_from_api(postcode, postcode_cache) :
         /\ lookups' = Append(lookups, CleanPostcode(postcode))
         /\ requests' = requests \o out.requests
         /\ postcode_cache' = out.cache
         /\ result' = (IF out.ok THEN Some(out.lat_lon) ELSE None)
         /\ error' = (IF out.ok THEN None ELSE Some("ValueError"))
         /\ pc' = (IF out.ok THEN "returned" ELSE "raised")
    /\ UNCHANGED <<df, origin_postcode, dest_postcode, vehicle_type, route_key,
                   target_bandwidth, df_query, target, tiers, min_count,
                   use_time_weighting, level, pricing_stats, message>>

NextGeocoder == \E postcode \in GeocoderPostcodes : CallGetLatLon(postcode)

SpecGeocoder == InitGeocoder /\ [][NextGeocoder]_vars

\* ===================================================================== claims
\* what estimate_price_from_df makes of the pool of level k of this query
StatsAt(k) == estimate_price_from_df(Pool(k), use_time_weighting)
ValidCountAt(k) ==
    LET stats == StatsAt(k) IN IF IsNull(stats) THEN 0 ELSE Val(stats).valid_count
MeetsThreshold(k) == ValidCountAt(k) >= min_count
EstimateReturned == pc = "returned" /\ caller = "direct"
TierSeq == <<Val(tiers).matches_3_letter, Val(tiers).within_10km,
             Val(tiers).within_20km, Val(tiers).matches_2_letter>>

\* C1: estimate_price tries the pools in the order 1, 2, 3, 4 (it stands at
\* level k only after every earlier level failed the threshold) and returns
\* the statistics of the first pool whose valid_count >= min_count, with an
\* explanation naming that pool and its count; if no pool qualifies it
\* returns None and raises nothing.
C1_FirstQualifyingTier ==
    /\ pc = "estimate" =>
          /\ level \in 1..NumLevels
          /\ \A j \in 1..(level - 1) : ~MeetsThreshold(j)
    /\ EstimateReturned =>
          LET Q == {k \in 1..NumLevels : MeetsThreshold(k)}
          IN  IF Q = {} THEN result = None /\ error = None
              ELSE LET k == CHOOSE m \in Q : \A j \in Q : m <= j
                   IN  result = Some([stats |-> Val(StatsAt(k)),
                                      explanation |-> [count |-> ValidCountAt(k),
                                                       label |-> Labels[k]]])
\* a query whose first two pools are too small and whose third wins
C1_Witness ==
    /\ EstimateReturned /\ min_count = DefaultMinCount
    /\ NotNull(result)
    /\ Val(result).explanation.label = Labels[3]
    /\ ValidCountAt(1) > 0

\* the rows of the query's frame that are in at least one tier
MatchingRecords ==
    Cardinality({i \in 1..Len(df_query) :
                    \E j \in 1..NumLevels : required_cols(df_query[i]) \in Range(TierSeq[j])})
\* the rows of the four tiers, a record counted once per tier it is in
TierRowsTotal == Len(TierSeq[1]) + Len(TierSeq[2]) + Len(TierSeq[3]) + Len(TierSeq[4])

\* C2 (as stated): when only 3 shipment records match any tier, estimate_price
\* with min_count 5 returns None.
C2_ThreeMatchesNoEstimate ==
    (EstimateReturned /\ min_count = DefaultMinCount /\ MatchingRecords = 3)
        => result = None /\ error = None
\* C2 (amended): when the four tiers hold fewer than 5 rows in all, a record
\* counted once for every tier it is in, every fallback level is below
\* min_count 5 and estimate_price returns None and raises nothing.
C2_FewTierRowsNoEstimate ==
    (EstimateReturned /\ min_count = DefaultMinCount /\ TierRowsTotal < DefaultMinCount)
        => /\ result = None /\ error = None
           /\ \A k \in 1..NumLevels : ~MeetsThreshold(k)
\* 3 matching records, each in a single tier
C2_Witness ==
    /\ EstimateReturned /\ min_count = DefaultMinCount
    /\ MatchingRecords = 3 /\ TierRowsTotal = 3
    /\ ValidCountAt(NumLevels) = 3
    /\ result = None

\* C3: for ScenarioRows shipments on one route, all priced 250, all within the
\* last 365 days, vehicle type Van, the submit handler finds at least 25
\* recent 3-letter matches and shows a price estimate within 5 of 250.
IsUniformScenario ==
    /\ Len(df) = ScenarioRows
    /\ \A i \in 1..Len(df) : df[i].carrier_price = Some(250)
QueryOnScenarioRoute ==
    /\ CleanPostcode(origin_postcode) = CleanPostcode(PcSW1A)
    /\ CleanPostcode(dest_postcode) = CleanPostcode(PcB11)
C3_ScenarioEstimate ==
    (pc = "done" /\ caller = "app" /\ IsUniformScenario /\ QueryOnScenarioRoute)
        => /\ Len(matches_3_letter_recent(Val(tiers).matches_3_letter)) >= MinRecentMatches
           /\ NotNull(pricing_stats)
           /\ FLeq(FromInt(245), Val(pricing_stats).volume_time_weighted_avg_cost)
           /\ FLeq(Val(pricing_stats).volume_time_weighted_avg_cost, FromInt(255))

\* C4: estimate_price_from_df returns None, and raises nothing, for a frame
\* that is empty or has no row with a non-null, non-zero carrier price and a
\* non-null pickup date.
NoPriceableRow ==
    \A i \in 1..Len(df) :
        \/ df[i].carrier_price = None
        \/ df[i].carrier_price = Some(0)
        \/ df[i].pickup_date = None
FromDfReturned == pc = "returned" /\ caller = "from_df"
C4_NoPriceableRowNoEstimate ==
    (FromDfReturned /\ NoPriceableRow) => result = None /\ error = None
\* a frame with a zero price, a null price and a priced row without a date
C4_Witness ==
    /\ FromDfReturned /\ NoPriceableRow /\ result = None
    /\ \E i \in 1..Len(df) : df[i].carrier_price = Some(0)
    /\ \E i \in 1..Len(df) : df[i].carrier_price = None
    /\ \E i \in 1..Len(df) : df[i].pickup_date = None /\ df[i].carrier_price \notin {None, Some(0)}

\* C5: identify_optimal_price returns None whenever fewer than 5 rows of the
\* frame, after the route_key and vehicle_type filters, have a non-null,
\* non-zero carrier price.
PriceableObservations ==
    Cardinality({i \in 1..Len(df) :
                    /\ IsNull(route_key) \/ df[i].route_key = Val(route_key)
                    /\ IsNull(vehicle_type) \/ df[i].vehicle_type = vehicle_type
                    /\ df[i].carrier_price \notin {None, Some(0)}})
C5_FewPriceableNoEstimate ==
    (pc = "returned" /\ caller = "density" /\ PriceableObservations < MinObservations)
        => result = None

\* C6: find_similar_routes_by_postcode hands the target origin, then the
\* target destination, to the geocoder, never more than once each; tiers are
\* computed and returned only after both were resolved, from the coordinates
\* the geocoder gave; a resolution that fails ends the query with the
\* geocoder's ValueError and no tier is returned.
OriginClean == CleanPostcode(origin_postcode)
DestClean == CleanPostcode(dest_postcode)
OriginResolved ==
    /\ OriginClean \in DOMAIN postcode_cache
    /\ postcode_cache[OriginClean] = Coord(target.olat, target.olon)
DestResolved ==
    /\ DestClean \in DOMAIN postcode_cache
    /\ postcode_cache[DestClean] = Coord(target.dlat, target.dlon)
C6_GeocoderFailurePropagates ==
    /\ pc = "resolve_origin" => lookups = <<>>
    /\ pc = "resolve_dest" => lookups = <<OriginClean>> /\ OriginResolved
    /\ (pc \in {"filter", "matched", "estimate"} \/ NotNull(tiers)) =>
          /\ lookups = <<OriginClean, DestClean>>
          /\ OriginResolved /\ DestResolved
          /\ error = None
    /\ pc = "raised" =>
          /\ error = Some("ValueError")
          /\ tiers = None
          /\ \/ lookups = <<OriginClean>> /\ OriginClean \notin DOMAIN postcode_cache
             \/ lookups = <<OriginClean, DestClean>> /\ OriginResolved
                  /\ DestClean \notin DOMAIN postcode_cache
    /\ NotNull(error) => pc = "raised"
\* the destination fails after the origin was resolved
C6_Witness ==
    /\ pc = "raised" /\ Len(lookups) = 2 /\ tiers = None
    /\ OriginResolved

\* C7: the valid_count of the pool of level k+1 is at least that of level k.
C7_VolumeIncreasing ==
    EstimateReturned =>
        LET count == Frame([k \in 1..NumLevels |-> ValidCountAt(k)])
        IN  \A k \in 1..(NumLevels - 1) : count[k + 1] >= count[k]
\* every level adds rows
C7_Witness ==
    /\ EstimateReturned /\ NotNull(tiers)
    /\ ValidCountAt(1) > 0
    /\ \A k \in 1..(NumLevels - 1) : ValidCountAt(k + 1) > ValidCountAt(k)

\* C8: the pools of levels 2-4 are multiset unions: a priceable, dated record
\* that is m times in the tiers concatenated at a level adds m to the level's
\* valid_count and enters the weighted average m times.
Occurrences(r, k) ==
    SumInts([j \in 1..k |-> SeqCount(TierSeq[j], r)])
RecordsAt(k) ==
    {r \in UNION {Range(TierSeq[j]) : j \in 1..k} :
        r.carrier_price \notin {None, Some(0)} /\ r.pickup_date # None}
RECURSIVE Enumerate(_)
Enumerate(S) ==
    IF S = {} THEN <<>>
    ELSE LET x == CHOOSE y \in S : TRUE IN <<x>> \o Enumerate(S \ {x})
WeightOf(r) == time_weight(r, use_time_weighting)
C8_MultisetUnion ==
    EstimateReturned =>
        \A k \in 2..NumLevels :
            LET recs == Enumerate(RecordsAt(k))
                m(i) == Occurrences(recs[i], k)
                count == SumInts([i \in 1..Len(recs) |-> m(i)])
                cost == FSum([i \in 1..Len(recs) |->
                            FMul(FromInt(m(i) * Val(recs[i].carrier_price)), WeightOf(recs[i]))])
                weight == FSum([i \in 1..Len(recs) |-> FMul(FromInt(m(i)), WeightOf(recs[i]))])
                stats == StatsAt(k)
            IN  IF recs = <<>> THEN stats = None
                ELSE /\ NotNull(stats)
                     /\ Val(stats).valid_count = count
                     /\ Val(stats).volume_time_weighted_avg_cost = FDiv(cost, weight)
\* a level-2 estimate over two different records, one of them in both tiers
C8_Witness ==
    /\ EstimateReturned /\ NotNull(result) /\ use_time_weighting
    /\ Val(result).explanation.label = Labels[2]
    /\ \E r \in RecordsAt(2) : Occurrences(r, 2) = 2
    /\ \E r \in RecordsAt(2) : Occurrences(r, 2) = 1
    /\ IsFinite(Val(result).stats.volume_time_weighted_avg_cost)
    /\ Val(result).stats.min_cost < Val(result).stats.max_cost

\* C9: every row of every returned tier has a non-null, non-zero carrier
\* price and, when a vehicle type was asked for, exactly that vehicle type;
\* a row of the frame that fails this base filter is in no tier.
PassesBaseFilter(r) ==
    /\ r.carrier_price \notin {None, Some(0)}
    /\ NotNull(vehicle_type) => r.vehicle_type = vehicle_type
C9_BaseFilter ==
    NotNull(tiers) =>
        /\ \A j \in 1..NumLevels : \A i \in 1..Len(TierSeq[j]) : PassesBaseFilter(TierSeq[j][i])
        /\ \A i \in 1..Len(df_query) :
              ~PassesBaseFilter(df_query[i]) =>
                  \A j \in 1..NumLevels : required_cols(df_query[i]) \notin Range(TierSeq[j])
\* a vehicle type is asked for, and rows of another type, of no type and of
\* price zero that match the route by prefix are left out
C9_Witness ==
    /\ NotNull(tiers) /\ vehicle_type = Some("Van")
    /\ TierSeq[1] # <<>> /\ TierSeq[3] # <<>>
    /\ \E i \in 1..Len(df_query) :
          /\ df_query[i].vehicle_type = Some("Luton")
          /\ PrefixMatch(df_query[i], OriginClean, DestClean, Prefix3Len) = KTrue
    /\ \E i \in 1..Len(df_query) :
          /\ df_query[i].carrier_price = Some(0)
          /\ PrefixMatch(df_query[i], OriginClean, DestClean, Prefix3Len) = KTrue

\* C10: avg_cost, median_cost and stddev_cost are the mean, median and n-1
\* standard deviation of carrier price over the qualifying rows, each row
\* counted once, and valid_count is the number of qualifying rows.
QualifyingPrices ==
    LET rows == SelectSeq(df, LAMBDA r :
                    r.carrier_price \notin {None, Some(0)} /\ r.pickup_date # None)
    IN  [i \in 1..Len(rows) |-> Val(rows[i].carrier_price)]
C10_UngroupedStatistics ==
    (FromDfReturned /\ NotNull(result)) =>
        /\ Val(result).valid_count = Len(QualifyingPrices)
        /\ Val(result).avg_cost = ColMean(QualifyingPrices)
        /\ Val(result).median_cost = ColMedian(QualifyingPrices)
        /\ Val(result).stddev_cost = ColStd(QualifyingPrices)

\* ------------------------------------------------------------ time weighting
FSub(a, b) == FAdd(a, FMul(FromInt(-1), b))
FAbs(a) == [n |-> Abs(a.n), d |-> a.d]
\* a < b on finite values
FLess(a, b) == a.n * b.d < b.n * a.d
\* the rows of df that estimate_price_from_df keeps
QualifyingRows == Filter(df, Qualifies)

\* C11: with time weighting on, every qualifying row has years_ago >= 0 and a
\* finite weight 1/(years_ago + 1) in (0, 1], whatever its pickup date.
C11_WeightInUnitInterval ==
    (FromDfReturned /\ use_time_weighting) =>
        \A i \in 1..Len(QualifyingRows) :
            LET w == time_weight(QualifyingRows[i], TRUE)
            IN  /\ years_ago(QualifyingRows[i]) >= 0
                /\ IsFinite(w) /\ w.n > 0 /\ FLeq(w, FromInt(1))

\* C12: with time weighting on, for two price groups of equal volume and
\* different prices, one of the current year and one of 4 years ago,
\* volume_time_weighted_avg_cost is strictly closer to the current-year price
\* than the unweighted mean of the same rows.
PricesOfAge(age) ==
    {Val(QualifyingRows[i].carrier_price) :
        i \in {j \in 1..Len(QualifyingRows) : years_ago(QualifyingRows[j]) = age}}
RowsOfAge(age) ==
    Cardinality({j \in 1..Len(QualifyingRows) : years_ago(QualifyingRows[j]) = age})
TwoGroupScenario ==
    /\ \A i \in 1..Len(QualifyingRows) : years_ago(QualifyingRows[i]) \in {0, 4}
    /\ Cardinality(PricesOfAge(0)) = 1 /\ Cardinality(PricesOfAge(4)) = 1
    /\ PricesOfAge(0) # PricesOfAge(4)
    /\ RowsOfAge(0) = RowsOfAge(4)
    /\ Len(group_by(WithWeight(Select(df), TRUE))) = 2
CurrentYearPrice == FromInt(CHOOSE p \in PricesOfAge(0) : TRUE)
C12_CloserToCurrentYear ==
    (FromDfReturned /\ use_time_weighting /\ TwoGroupScenario) =>
        /\ NotNull(result)
        /\ FLess(FAbs(FSub(Val(result).volume_time_weighted_avg_cost, CurrentYearPrice)),
                 FAbs(FSub(ColMean(QualifyingPrices), CurrentYearPrice)))
\* the two groups are there, with rows that do not qualify beside them or not
C12_Witness ==
    /\ FromDfReturned /\ use_time_weighting /\ TwoGroupScenario
    /\ NotNull(result) /\ Val(result).valid_count = 2 * RowsOfAge(0)

\* ------------------------------------------------------------------ route key
\* C13: two rows on the same undirected route, by their normalized postcodes,
\* have the same route key.
NormalizedPair(r) ==
    {CleanPostcode(r.origin_postcode), CleanPostcode(r.destination_postcode)}
C13_RouteKeyOfNormalizedPair ==
    FromDfReturned =>
        \A i, j \in 1..Len(QualifyingRows) :
            NormalizedPair(QualifyingRows[i]) = NormalizedPair(QualifyingRows[j])
                => create_route_key(QualifyingRows[i]) = create_route_key(QualifyingRows[j])

\* ------------------------------------------------------------- distance tiers
\* C14: every row of the within-10km tier is a row of the within-20km tier,
\* as often, and the within-20km tier holds every row of the frame that
\* passes the base filter and the 20 km predicate, in the 10 km tier or not.
C14_DistanceTierContainment ==
    pc = "matched" =>
        /\ \A r \in Range(Val(tiers).within_10km) :
              SeqCount(Val(tiers).within_20km, r) >= SeqCount(Val(tiers).within_10km, r)
        /\ \A i \in 1..Len(df_query) :
              KAnd(combined_filter(df_query[i], vehicle_type),
                   DistanceMatch(df_query[i], target, Within20Km)) = KTrue
                  => required_cols(df_query[i]) \in Range(Val(tiers).within_20km)
\* a 10 km match, a row that is within 20 km only, and a priced row without
\* coordinates
C14_Witness ==
    /\ pc = "matched"
    /\ Val(tiers).within_10km # <<>>
    /\ Len(Val(tiers).within_20km) > Len(Val(tiers).within_10km)
    /\ \E i \in 1..Len(df_query) :
          /\ IsNull(df_query[i].dest_lat)
          /\ combined_filter(df_query[i], vehicle_type) = KTrue

\* ------------------------------------------------------------------- grouping
\* C15: volume_time_weighted_avg_cost is the sum of weight x price over the
\* qualifying rows divided by the sum of their weights; without time
\* weighting it is the mean price of the qualifying rows; with all weights
\* positive it lies between the lowest and the highest qualifying price.
RowWeights ==
    Frame([i \in 1..Len(QualifyingRows) |-> time_weight(QualifyingRows[i], use_time_weighting)])
RowByRowAverage ==
    FDiv(FSum([i \in 1..Len(QualifyingRows) |->
                 FMul(FromInt(Val(QualifyingRows[i].carrier_price)), RowWeights[i])]),
         FSum(RowWeights))
C15_GroupingKeepsAverage ==
    (FromDfReturned /\ NotNull(result)) =>
        LET avg == Val(result).volume_time_weighted_avg_cost
        IN  /\ avg = RowByRowAverage
            /\ ~use_time_weighting => avg = ColMean(QualifyingPrices)
            /\ (\A i \in 1..Len(RowWeights) : RowWeights[i].n > 0)
                  => /\ IsFinite(avg)
                     /\ FLeq(FromInt(ColMin(QualifyingPrices)), avg)
                     /\ FLeq(avg, FromInt(ColMax(QualifyingPrices)))

\* ------------------------------------------------------------- geocoder cache
\* one call of get_lat_lon_from_api, seen as a step: the postcode looked up,
\* the requests the call made, and what a call that goes through the request
\* list Att must have done
LookedUp == lookups'[Len(lookups')]
NewRequests == SubSeq(requests', Len(requests) + 1, Len(requests'))
CacheKept ==
    \A q \in DOMAIN postcode_cache :
        q \in DOMAIN postcode_cache' /\ postcode_cache'[q] = postcode_cache[q]
LookupStepOk(Att(_)) ==
    /\ CacheKept
    /\ IF LookedUp \in DOMAIN postcode_cache
       THEN /\ NewRequests = <<>>
            /\ result' = Some(postcode_cache[LookedUp])
            /\ error' = None
            /\ postcode_cache' = postcode_cache
       ELSE \/ /\ error' = Some("ValueError") /\ result' = None
               /\ NewRequests = Att(LookedUp)
               /\ postcode_cache' = postcode_cache
            \/ /\ error' = None
               /\ \E j \in 1..Len(Att(LookedUp)) :
                     /\ NewRequests = SubSeq(Att(LookedUp), 1, j)
                     /\ result' = ApiDirectory(Att(LookedUp)[j].endpoint, Att(LookedUp)[j].code)
               /\ NotNull(result')
               /\ DOMAIN postcode_cache' = DOMAIN postcode_cache \cup {LookedUp}
               /\ postcode_cache'[LookedUp] = Val(result')
\* the request list the amended statement gives: the 4-character outcode only
\* after a full-postcode request, the 3-character outcode from 3 characters on
AttemptsAsDocumented(postcode) ==
    (IF Len(postcode) > 4
     THEN <<Url("postcodes", postcode), Url("outcodes", StrSlice(postcode, 4))>>
     ELSE <<>>) \o
    (IF Len(postcode) >= 3 THEN <<Url("outcodes", StrSlice(postcode, 3))>> ELSE <<>>)

\* C16 (as stated): every call keeps the cache entries, answers a cached
\* postcode without a request, and otherwise requests the full postcode (only
\* if longer than 4 characters), then the 4-character outcode, then the
\* 3-character outcode, up to the first success, which it stores under the
\* normalized postcode; if all fail it raises ValueError, cache unchanged.
C16_FullThenOutcode4ThenOutcode3 ==
    [][lookups' # lookups => LookupStepOk(Attempts4WheneverLongEnough)]_vars
\* C16 (amended): as above, but the 4-character outcode is requested only
\* for a postcode longer than 4 characters, after its full-postcode request,
\* and a postcode shorter than 3 characters raises without any request.
C16_CacheAndFallback ==
    [][lookups' # lookups => LookupStepOk(AttemptsAsDocumented)]_vars
\* a postcode resolved by its 4-character outcode after the full postcode
\* failed, a 4-character postcode that raised after its only request, and the
\* first postcode again, differently written, answered from the cache
C16_Witness ==
    /\ caller = "geocoder" /\ pc = "returned"
    /\ lookups = <<CleanPostcode(PcSW1A), PcOutcode4, CleanPostcode(PcSW1Alow)>>
    /\ requests = <<Url("postcodes", CleanPostcode(PcSW1A)),
                    Url("outcodes", PcOutcode4),
                    Url("outcodes", StrSlice(PcOutcode4, Outcode3Len))>>
    /\ DOMAIN postcode_cache = {CleanPostcode(PcSW1A)}
    /\ result = Some(postcode_cache[CleanPostcode(PcSW1A)])

====
